---- MODULE Spec2Model ----
(***************************************************************************)
(* XORNG template-knowledge: the document chunker (utils/chunking.ts), the  *)
(* keyword search index (utils/search.ts) and the provider that feeds the  *)
(* index from its sources (base/BaseKnowledgeProvider.ts).                 *)
(*                                                                         *)
(* Strings are sequences of one-character strings.  Chunk ids              *)
(* `${documentId}-chunk-${i}` are the pairs <<documentId, i>>.             *)
(***************************************************************************)
EXTENDS Integers, Sequences, FiniteSets, TLC

VARIABLES
    \* ChunkingUtils
    document,       \* the Document handed to chunk()
    chunkSize,      \* this.chunkSize
    overlap,        \* this.overlap
    sections,       \* sections of chunk() not yet consumed by the for loop
    currentChunk,   \* chunk(): let currentChunk
    startOffset,    \* chunk(): let startOffset
    chunkIndex,     \* chunk(): let chunkIndex
    chunks,         \* chunk(): const chunks; mergeSmallChunks(): its argument
    pc,             \* position in chunk() / mergeSmallChunks()
    minSize,        \* mergeSmallChunks(): minSize
    merged,         \* mergeSmallChunks(): its return value
    \* SearchIndex
    indexChunks,    \* this.chunks: chunk id -> DocumentChunk
    invertedIndex,  \* this.invertedIndex: token -> ids, in insertion order
    lastCall,       \* the last call made on the index or the provider,
                    \* with its arguments
    lastReturn,     \* what that call returned
    live,           \* history: id -> the contents added under it since the
                    \* last remove(id) or clear()
    workload,       \* which calls the index's client makes
    \* BaseKnowledgeProvider
    store,          \* this.store.documents: document id -> Document
    sources,        \* this.sources in registration order: each source's
                    \* `connected` field
    providerConfig, \* this.providerConfig
    providerPc,     \* position in initialize() or in the 'sync' tool
    syncs,          \* the calls of the 'sync' tool so far
    outcome,        \* history: per source, how its connect and its fetch
                    \* during initialize() ended and what the fetch returned
    fetched         \* the call of fetchDocuments that the last step made,
                    \* if it made one: the source it was made on and what
                    \* that source's isConnected() returned at the call

chunkVars == <<document, chunkSize, overlap, sections, currentChunk,
               startOffset, chunkIndex, chunks, pc, minSize, merged>>

indexVars == <<indexChunks, invertedIndex, lastCall, lastReturn, live, workload>>

providerVars ==
    <<store, sources, providerConfig, providerPc, syncs, outcome, fetched>>

vars == <<chunkVars, indexVars, providerVars>>

-----------------------------------------------------------------------------
(* Bounds of the model *)

MaxLen == 6          \* longest document content of the chunker runs
MaxChunkSize == 5    \* largest chunkSize of the chunker runs
MaxMergeChunks == 3  \* longest input of mergeSmallChunks
MaxContentLen == 2   \* longest chunk content of a mergeSmallChunks input
MaxMinSize == 3      \* largest minSize of mergeSmallChunks

(* Program constants *)

DefaultChunkSize == 1000
DefaultOverlap == 200
DefaultMinSize == 100

-----------------------------------------------------------------------------
(* Characters and strings *)

\* The characters JavaScript's \s and trim() take for white space.
Whitespace == {" ", "\n"}

Min(S) == CHOOSE x \in S : \A y \in S : x <= y
Max(S) == CHOOSE x \in S : \A y \in S : y <= x

\* All strings over alphabet A of length at most n.
StringsUpTo(A, n) == UNION {[1..k -> A] : k \in 0..n}

\* new Map()
EmptyMap == [x \in {} |-> x]

\* The elements of a sequence.
Range(s) == {s[i] : i \in 1..Len(s)}

RECURSIVE Concat(_)
Concat(ss) == IF ss = <<>> THEN <<>> ELSE Head(ss) \o Concat(Tail(ss))

\* s.trim().length === 0
IsBlank(s) == \A i \in 1..Len(s) : s[i] \in Whitespace

\* String.prototype.trim
Trim(s) ==
    IF IsBlank(s) THEN <<>>
    ELSE LET ink == {i \in 1..Len(s) : s[i] \notin Whitespace}
         IN  SubSeq(s, Min(ink), Max(ink))

\* s.slice(-n) for n >= 0: -0 is 0, so slice(-0) is slice(0), the whole
\* string; otherwise the start is max(length - n, 0).
SliceFromEnd(s, n) ==
    IF n = 0 THEN s
    ELSE SubSeq(s, Max({Len(s) - n, 0}) + 1, Len(s))

\* s.split('\n')
RECURSIVE SplitLines(_)
SplitLines(s) ==
    LET nl == {i \in 1..Len(s) : s[i] = "\n"}
    IN  IF nl = {} THEN <<s>>
        ELSE LET i == Min(nl)
             IN  <<SubSeq(s, 1, i - 1)>> \o SplitLines(SubSeq(s, i + 1, Len(s)))

\* s.split(/\n\n+/): the separators are the maximal runs of two or more
\* newlines.
RECURSIVE SplitParagraphBreaks(_)
SplitParagraphBreaks(s) ==
    LET brk == {i \in 1..(Len(s) - 1) : s[i] = "\n" /\ s[i + 1] = "\n"}
    IN  IF brk = {} THEN <<s>>
        ELSE LET i == Min(brk)
                 j == Max({k \in i..Len(s) : \A m \in i..k : s[m] = "\n"})
             IN  <<SubSeq(s, 1, i - 1)>>
                     \o SplitParagraphBreaks(SubSeq(s, j + 1, Len(s)))

\* sequence.filter(p)
RECURSIVE FilterNonBlank(_)
FilterNonBlank(ss) ==
    IF ss = <<>> THEN <<>>
    ELSE (IF IsBlank(Head(ss)) THEN <<>> ELSE <<Head(ss)>>)
             \o FilterNonBlank(Tail(ss))

-----------------------------------------------------------------------------
(* ChunkingUtils: the type-specific splitters *)

\* content.split(/\n\n+/).map(p => p.trim() + '\n\n')
\*        .filter(p => p.trim().length > 0)
splitParagraphs(content) ==
    LET parts == SplitParagraphBreaks(content)
    IN  FilterNonBlank([i \in 1..Len(parts) |-> Trim(parts[i]) \o <<"\n", "\n">>])

\* line.match(/^#{1,6}\s/)
IsHeader(line) ==
    \E k \in 1..6 :
        /\ k < Len(line)
        /\ \A j \in 1..k : line[j] = "#"
        /\ line[k + 1] \in Whitespace

\* One iteration of splitMarkdown's loop; st = [sections, currentSection].
MarkdownStep(st, line) ==
    IF IsHeader(line)
    THEN [sections |-> IF ~IsBlank(st.currentSection)
                       THEN Append(st.sections, st.currentSection)
                       ELSE st.sections,
          currentSection |-> line \o <<"\n">>]
    ELSE IF IsBlank(line) /\ ~IsBlank(st.currentSection)
    THEN [sections |-> Append(st.sections, st.currentSection \o <<"\n">>),
          currentSection |-> <<>>]
    ELSE [sections |-> st.sections,
          currentSection |-> st.currentSection \o line \o <<"\n">>]

RECURSIVE MarkdownLoop(_, _)
MarkdownLoop(st, lines) ==
    IF lines = <<>> THEN st
    ELSE MarkdownLoop(MarkdownStep(st, Head(lines)), Tail(lines))

\* Faulty variant: the section left after the loop is not pushed.
splitMarkdown_NoLastPush(content) ==
    MarkdownLoop([sections |-> <<>>, currentSection |-> <<>>],
                 SplitLines(content)).sections

splitMarkdown(content) ==
    LET st == MarkdownLoop([sections |-> <<>>, currentSection |-> <<>>],
                           SplitLines(content))
    IN  IF ~IsBlank(st.currentSection)
        THEN Append(st.sections, st.currentSection)
        ELSE st.sections

\* (line.match(/c/g) || []).length
CountChar(line, c) == Cardinality({i \in 1..Len(line) : line[i] = c})

\* Faulty variant: a blank line ends the section at any brace depth.
CodeStep_IgnoresDepth(st, line) ==
    LET depth == st.braceDepth + CountChar(line, "{") - CountChar(line, "}")
        cur == st.currentSection \o line \o <<"\n">>
    IN  IF IsBlank(line) /\ ~IsBlank(cur)
        THEN [sections |-> Append(st.sections, cur),
              currentSection |-> <<>>, braceDepth |-> depth]
        ELSE [sections |-> st.sections,
              currentSection |-> cur, braceDepth |-> depth]

\* One iteration of splitCode's loop; st = [sections, currentSection,
\* braceDepth].
CodeStep(st, line) ==
    LET depth == st.braceDepth + CountChar(line, "{") - CountChar(line, "}")
        cur == st.currentSection \o line \o <<"\n">>
    IN  IF depth = 0 /\ IsBlank(line) /\ ~IsBlank(cur)
        THEN [sections |-> Append(st.sections, cur),
              currentSection |-> <<>>, braceDepth |-> depth]
        ELSE [sections |-> st.sections,
              currentSection |-> cur, braceDepth |-> depth]

RECURSIVE CodeLoop(_, _)
CodeLoop(st, lines) ==
    IF lines = <<>> THEN st
    ELSE CodeLoop(CodeStep(st, Head(lines)), Tail(lines))

splitCode(content) ==
    LET st == CodeLoop([sections |-> <<>>, currentSection |-> <<>>,
                        braceDepth |-> 0], SplitLines(content))
    IN  IF ~IsBlank(st.currentSection)
        THEN Append(st.sections, st.currentSection)
        ELSE st.sections

splitSemantically(content, type) ==
    CASE type = "markdown" -> splitMarkdown(content)
      [] type = "code"     -> splitCode(content)
      [] OTHER             -> splitParagraphs(content)

-----------------------------------------------------------------------------
(* ChunkingUtils.chunk *)

\* The DocumentChunk pushed by chunk().
MakeChunk(doc, index, content, from, to) ==
    [id |-> <<doc.id, index>>, documentId |-> doc.id, content |-> content,
     startOffset |-> from, endOffset |-> to, metadata |-> doc.metadata]

\* The chunk pushed for the running buffer, in the loop and after it.
BufferChunk(doc, index, buffer, from) ==
    MakeChunk(doc, index, Trim(buffer), from, from + Len(buffer))

\* Faulty variant: the small document goes through the buffer's trim.
SingleChunk_Trimmed(doc) == BufferChunk(doc, 0, doc.content, 0)

\* The single chunk of a small document: content as it is, not trimmed.
SingleChunk(doc) ==
    MakeChunk(doc, 0, doc.content, 0, Len(doc.content))

\* The loop's test: the next section would overflow a non-empty buffer.
EmitCond(buffer, section, size) ==
    Len(buffer) + Len(section) > size /\ Len(buffer) > 0

\* const overlapText = currentChunk.slice(-this.overlap)
OverlapText(buffer, ov) == SliceFromEnd(buffer, ov)

\* startOffset = startOffset + currentChunk.length - this.overlap
NextStartOffset(from, buffer, ov) == from + Len(buffer) - ov

\* chunk() is entered: a small document returns its single chunk, a larger
\* one is split into sections and the loop starts.
Begin ==
    /\ pc = "start"
    /\ IF Len(document.content) <= chunkSize
       THEN /\ chunks' = <<SingleChunk(document)>>
            /\ pc' = "done"
            /\ UNCHANGED <<sections, currentChunk, startOffset, chunkIndex>>
       ELSE /\ sections' = splitSemantically(document.content, document.type)
            /\ currentChunk' = <<>>
            /\ startOffset' = 0
            /\ chunkIndex' = 0
            /\ chunks' = <<>>
            /\ pc' = IF sections' = <<>> THEN "final" ELSE "check"
    /\ UNCHANGED <<document, chunkSize, overlap, minSize, merged>>
    /\ UNCHANGED <<indexVars, providerVars>>

\* The loop body's if: the buffer is pushed and the next one seeded.
Emit ==
    /\ pc = "check"
    /\ EmitCond(currentChunk, Head(sections), chunkSize)
    /\ chunks' = Append(chunks,
                        BufferChunk(document, chunkIndex, currentChunk, startOffset))
    /\ currentChunk' = OverlapText(currentChunk, overlap)
    /\ startOffset' = NextStartOffset(startOffset, currentChunk, overlap)
    /\ chunkIndex' = chunkIndex + 1
    /\ pc' = "append"
    /\ UNCHANGED <<document, chunkSize, overlap, sections, minSize, merged>>
    /\ UNCHANGED <<indexVars, providerVars>>

\* currentChunk += section, and the loop goes on to the next section.
AppendSection ==
    /\ \/ pc = "append"
       \/ pc = "check" /\ ~EmitCond(currentChunk, Head(sections), chunkSize)
    /\ currentChunk' = currentChunk \o Head(sections)
    /\ sections' = Tail(sections)
    /\ pc' = IF sections' = <<>> THEN "final" ELSE "check"
    /\ UNCHANGED <<document, chunkSize, overlap, startOffset, chunkIndex,
                   chunks, minSize, merged>>
    /\ UNCHANGED <<indexVars, providerVars>>

\* After the loop: the last buffer is pushed unless it is blank.
Final ==
    /\ pc = "final"
    /\ chunks' = IF ~IsBlank(currentChunk)
                 THEN Append(chunks, BufferChunk(document, chunkIndex,
                                                 currentChunk, startOffset))
                 ELSE chunks
    /\ pc' = "done"
    /\ UNCHANGED <<document, chunkSize, overlap, sections, currentChunk,
                   startOffset, chunkIndex, minSize, merged>>
    /\ UNCHANGED <<indexVars, providerVars>>

-----------------------------------------------------------------------------
(* The chunker's runs *)

\* A new SearchIndex that nothing calls.
IndexIdle ==
    /\ indexChunks = EmptyMap
    /\ invertedIndex = EmptyMap
    /\ lastCall = [op |-> "new"]
    /\ lastReturn = "undefined"
    /\ live = EmptyMap
    /\ workload = "none"

\* No provider is built.
NoProvider ==
    /\ store = EmptyMap
    /\ sources = <<>>
    /\ providerConfig = EmptyMap
    /\ providerPc = [at |-> "none", i |-> 0, during |-> "none"]
    /\ syncs = 0
    /\ outcome = <<>>
    /\ fetched = <<>>

TextAlphabet == {"a", " ", "\n"}
MarkdownAlphabet == {"a", "#", " ", "\n"}
CodeAlphabet == {"a", "{", "}", "\n"}

DocMetadata == [source |-> "s"]

SmallDocuments ==
    {[id |-> "d", type |-> "text", content |-> c, metadata |-> DocMetadata] :
        c \in StringsUpTo(TextAlphabet, MaxLen)}
    \cup
    {[id |-> "d", type |-> "markdown", content |-> c, metadata |-> DocMetadata] :
        c \in StringsUpTo(MarkdownAlphabet, MaxLen)}
    \cup
    {[id |-> "d", type |-> "code", content |-> c, metadata |-> DocMetadata] :
        c \in StringsUpTo(CodeAlphabet, MaxLen)}

\* The document of the spec's example scenario: "A" * 1500.
ExampleDocument ==
    [id |-> "d1", type |-> "text", content |-> [i \in 1..1500 |-> "A"],
     metadata |-> DocMetadata]

InitChunk ==
    /\ \/ /\ document \in SmallDocuments
          /\ chunkSize \in 1..MaxChunkSize
          /\ overlap \in 0..(chunkSize - 1)
       \/ /\ document = ExampleDocument
          /\ chunkSize = DefaultChunkSize
          /\ overlap = DefaultOverlap
    /\ sections = <<>>
    /\ currentChunk = <<>>
    /\ startOffset = 0
    /\ chunkIndex = 0
    /\ chunks = <<>>
    /\ pc = "start"
    /\ minSize = DefaultMinSize
    /\ merged = <<>>
    /\ IndexIdle
    /\ NoProvider

NextChunk == Begin \/ Emit \/ AppendSection \/ Final

SpecChunk == InitChunk /\ [][NextChunk]_vars

-----------------------------------------------------------------------------
(* ChunkingUtils.mergeSmallChunks *)

\* One iteration of the loop; st = [merged, current], current being the
\* empty sequence for null and <<chunk>> otherwise.
MergeStep(st, chunk, min) ==
    IF st.current = <<>>
    THEN [merged |-> st.merged, current |-> <<chunk>>]
    ELSE IF Len(st.current[1].content) < min
    THEN [merged |-> st.merged,
          current |-> <<[st.current[1] EXCEPT
                            !.content = @ \o <<"\n">> \o chunk.content,
                            !.endOffset = chunk.endOffset]>>]
    ELSE [merged |-> Append(st.merged, st.current[1]), current |-> <<chunk>>]

RECURSIVE MergeLoop(_, _, _)
MergeLoop(st, cs, min) ==
    IF cs = <<>> THEN st
    ELSE MergeLoop(MergeStep(st, Head(cs), min), Tail(cs), min)

\* Faulty variant: the chunk left in current after the loop is not pushed.
mergeSmallChunks_DropsLast(cs, min) ==
    MergeLoop([merged |-> <<>>, current |-> <<>>], cs, min).merged

mergeSmallChunks(cs, min) ==
    LET st == MergeLoop([merged |-> <<>>, current |-> <<>>], cs, min)
    IN  IF st.current # <<>> THEN Append(st.merged, st.current[1])
        ELSE st.merged

\* mergeSmallChunks(chunks, minSize) is called; it builds new objects with
\* spread copies and assigns to nothing of its argument.
MergeSmallChunks ==
    /\ pc = "mergeStart"
    /\ merged' = mergeSmallChunks(chunks, minSize)
    /\ pc' = "merged"
    /\ UNCHANGED <<document, chunkSize, overlap, sections, currentChunk,
                   startOffset, chunkIndex, chunks, minSize>>
    /\ UNCHANGED <<indexVars, providerVars>>

(* The runs of mergeSmallChunks *)

MergeAlphabet == {"a", "b"}

MergeDocument ==
    [id |-> "d", type |-> "text", content |-> <<>>, metadata |-> DocMetadata]

RECURSIVE TotalLen(_)
TotalLen(cs) == IF cs = <<>> THEN 0 ELSE Len(Head(cs)) + TotalLen(Tail(cs))

\* Chunks with the given contents, laid end to end.
MergeInput(cs) ==
    [i \in 1..Len(cs) |->
        MakeChunk(MergeDocument, i - 1, cs[i],
                  TotalLen(SubSeq(cs, 1, i - 1)), TotalLen(SubSeq(cs, 1, i)))]

InitMerge ==
    /\ document = MergeDocument
    /\ chunkSize = DefaultChunkSize
    /\ overlap = DefaultOverlap
    /\ sections = <<>>
    /\ currentChunk = <<>>
    /\ startOffset = 0
    /\ chunkIndex = 0
    /\ \E cs \in StringsUpTo(StringsUpTo(MergeAlphabet, MaxContentLen),
                             MaxMergeChunks) :
           chunks = MergeInput(cs)
    /\ pc = "mergeStart"
    /\ minSize \in 0..MaxMinSize
    /\ merged = <<>>
    /\ IndexIdle
    /\ NoProvider

NextMerge == MergeSmallChunks

SpecMerge == InitMerge /\ [][NextMerge]_vars

-----------------------------------------------------------------------------
(* SearchIndex: tokenize *)

DefaultLimit == 10
MaxHighlights == 3
WindowSize == 50

LowerCaseLetters == {"a", "b", "c", "x", "y", "z"}
UpperToLower == ("A" :> "a") @@ ("B" :> "b") @@ ("C" :> "c")

\* \w
WordChars == LowerCaseLetters \cup DOMAIN UpperToLower \cup {"0", "_"}

\* String.prototype.toLowerCase
ToLowerCase(s) ==
    [i \in 1..Len(s) |->
        IF s[i] \in DOMAIN UpperToLower THEN UpperToLower[s[i]] ELSE s[i]]

\* s.replace(/[^\w\s]/g, ' ')
BlankNonWord(s) ==
    [i \in 1..Len(s) |->
        IF s[i] \in WordChars \cup Whitespace THEN s[i] ELSE " "]

\* s.split(/\s+/): the separators are the maximal runs of white space; a
\* leading or trailing run leaves an empty piece.
RECURSIVE SplitWhitespace(_)
SplitWhitespace(s) ==
    LET ws == {i \in 1..Len(s) : s[i] \in Whitespace}
    IN  IF ws = {} THEN <<s>>
        ELSE LET i == Min(ws)
                 j == Max({k \in i..Len(s) : \A m \in i..k : s[m] \in Whitespace})
             IN  <<SubSeq(s, 1, i - 1)>>
                     \o SplitWhitespace(SubSeq(s, j + 1, Len(s)))

tokenize(text) ==
    SelectSeq(SplitWhitespace(BlankNonWord(ToLowerCase(text))),
              LAMBDA token : Len(token) > 2)

-----------------------------------------------------------------------------
(* SearchIndex: add, remove, count, clear *)

\* Set.prototype.add on a posting set kept in insertion order.
SetAdd(posting, id) ==
    IF id \in Range(posting) THEN posting ELSE Append(posting, id)

\* Set.prototype.delete
SetDelete(posting, id) == SelectSeq(posting, LAMBDA x : x # id)

\* add()'s loop body for one token.
AddPosting(inv, token, id) ==
    LET had == IF token \in DOMAIN inv THEN inv[token] ELSE <<>>
    IN  [t \in DOMAIN inv \cup {token} |->
            IF t = token THEN SetAdd(had, id) ELSE inv[t]]

RECURSIVE AddPostings(_, _, _)
AddPostings(inv, tokens, id) ==
    IF tokens = <<>> THEN inv
    ELSE AddPostings(AddPosting(inv, Head(tokens), id), Tail(tokens), id)

\* remove()'s loop: this.invertedIndex.get(token)?.delete(chunkId)
RemovePostings(inv, tokens, id) ==
    [t \in DOMAIN inv |->
        IF t \in Range(tokens) THEN SetDelete(inv[t], id) ELSE inv[t]]

\* count()
count == Cardinality(DOMAIN indexChunks)

-----------------------------------------------------------------------------
(* SearchIndex: search *)

\* An optional value is the empty sequence (undefined) or <<value>>.
NoFilters == <<>>

\* JavaScript's truthiness of an optional string.
Truthy(str) == str # "undefined" /\ str # ""

\* The raw score of a chunk id: one for every query token, repeated or
\* not, whose posting set holds the id.
RawScore(id, queryTokens) ==
    Cardinality({t \in 1..Len(queryTokens) :
                    /\ queryTokens[t] \in DOMAIN invertedIndex
                    /\ id \in Range(invertedIndex[queryTokens[t]])})

\* The keys of the scores map in insertion order: by query token, then by
\* the posting set's insertion order.
RECURSIVE ScoreOrder(_, _)
ScoreOrder(order, queryTokens) ==
    IF queryTokens = <<>> THEN order
    ELSE LET posting == IF Head(queryTokens) \in DOMAIN invertedIndex
                        THEN invertedIndex[Head(queryTokens)] ELSE <<>>
             fresh == SelectSeq(posting, LAMBDA id : id \notin Range(order))
         IN  ScoreOrder(order \o fresh, Tail(queryTokens))

\* Math.max(...scores.values(), 1)
MaxScore(order, queryTokens) ==
    Max({RawScore(id, queryTokens) : id \in Range(order)} \cup {1})

\* The filters of search(): every one that is given must pass.
PassesFilters(chunk, filters) ==
    \/ filters = NoFilters
    \/ LET f == filters[1]
           md == chunk.metadata
       IN  /\ ~(Truthy(f.source) /\ md.source # f.source)
           /\ ~(Truthy(f.language) /\ md.language # f.language)
           /\ ~(f.tags # <<>> /\
                  ~\E t \in Range(f.tags[1]) :
                       md.tags # <<>> /\ t \in Range(md.tags[1]))

\* lowerContent.indexOf(token, from), positions counted from 0; -1 when
\* there is none.
IndexOf(s, t, from) ==
    LET hits == {i \in from..(Len(s) - Len(t)) : SubSeq(s, i + 1, i + Len(t)) = t}
    IN  IF hits = {} THEN -1 ELSE Min(hits)

Ellipsis == <<".", ".", ".">>

\* Faulty variant: the marker is put in front whenever the occurrence is
\* not at the very beginning of the content.
Snippet_MarksEveryOffset(content, index, token, windowSize) ==
    LET start == Max({0, index - windowSize})
        end == Min({Len(content), index + Len(token) + windowSize})
    IN  (IF index > 0 THEN Ellipsis ELSE <<>>)
            \o SubSeq(content, start + 1, end)
            \o (IF end < Len(content) THEN Ellipsis ELSE <<>>)

\* The snippet getHighlights cuts around an occurrence at index.
Snippet(content, index, token, windowSize) ==
    LET start == Max({0, index - windowSize})
        end == Min({Len(content), index + Len(token) + windowSize})
    IN  (IF start > 0 THEN Ellipsis ELSE <<>>)
            \o SubSeq(content, start + 1, end)
            \o (IF end < Len(content) THEN Ellipsis ELSE <<>>)

\* getHighlights' while loop for one token.
RECURSIVE HighlightWhile(_, _, _, _, _)
HighlightWhile(highlights, content, token, index, windowSize) ==
    IF index # -1 /\ Len(highlights) < MaxHighlights
    THEN HighlightWhile(Append(highlights, Snippet(content, index, token, windowSize)),
                        content, token,
                        IndexOf(ToLowerCase(content), token, index + 1),
                        windowSize)
    ELSE highlights

RECURSIVE HighlightFor(_, _, _, _)
HighlightFor(highlights, content, queryTokens, windowSize) ==
    IF queryTokens = <<>> THEN highlights
    ELSE HighlightFor(
             HighlightWhile(highlights, content, Head(queryTokens),
                            IndexOf(ToLowerCase(content), Head(queryTokens), 0),
                            windowSize),
             content, Tail(queryTokens), windowSize)

getHighlights(content, queryTokens, windowSize) ==
    LET hl == HighlightFor(<<>>, content, queryTokens, windowSize)
    IN  SubSeq(hl, 1, Min({MaxHighlights, Len(hl)}))

\* A score is the fraction num / den.
ScoreLess(a, b) == a.num * b.den < b.num * a.den

\* Faulty variant: a sort that is not stable; results of equal score come
\* out in reverse.
RECURSIVE SortByScore_TiesReversed(_)
SortByScore_TiesReversed(results) ==
    IF results = <<>> THEN <<>>
    ELSE LET n == Len(results)
             init == SortByScore_TiesReversed(SubSeq(results, 1, n - 1))
             r == results[n]
             keep == {i \in 1..Len(init) : ScoreLess(r.score, init[i].score)}
             k == IF keep = {} THEN 0 ELSE Max(keep)
         IN  SubSeq(init, 1, k) \o <<r>> \o SubSeq(init, k + 1, Len(init))

\* results.sort((a, b) => b.score - a.score): stable, by descending score.
RECURSIVE SortByScore(_)
SortByScore(results) ==
    IF results = <<>> THEN <<>>
    ELSE LET n == Len(results)
             init == SortByScore(SubSeq(results, 1, n - 1))
             r == results[n]
             keep == {i \in 1..Len(init) : ~ScoreLess(init[i].score, r.score)}
             k == IF keep = {} THEN 0 ELSE Max(keep)
         IN  SubSeq(init, 1, k) \o <<r>> \o SubSeq(init, k + 1, Len(init))

\* The results of search() before the sort: the scored ids that are stored
\* and pass the filters, in the scores map's order.
Matched(query, filters) ==
    LET queryTokens == tokenize(query)
        order == ScoreOrder(<<>>, queryTokens)
        maxScore == MaxScore(order, queryTokens)
        kept == SelectSeq(order, LAMBDA id :
                    /\ id \in DOMAIN indexChunks
                    /\ PassesFilters(indexChunks[id], filters))
    IN  [i \in 1..Len(kept) |->
            [chunk |-> indexChunks[kept[i]],
             score |-> [num |-> RawScore(kept[i], queryTokens), den |-> maxScore],
             highlights |-> getHighlights(indexChunks[kept[i]].content,
                                          queryTokens, WindowSize)]]

\* results.slice(0, limit)
search(query, limit, filters) ==
    LET sorted == SortByScore(Matched(query, filters))
    IN  SubSeq(sorted, 1, Min({limit, Len(sorted)}))

-----------------------------------------------------------------------------
(* The calls on a SearchIndex *)

\* Faulty variant: every token's posting set is replaced by a new one.
AddToIndex_Overwrites(inv, chunk) ==
    LET tokens == tokenize(chunk.content)
    IN  [t \in DOMAIN inv \cup Range(tokens) |->
            IF t \in Range(tokens) THEN <<chunk.id>> ELSE inv[t]]

\* add()'s update of the inverted index.
AddToIndex(inv, chunk) == AddPostings(inv, tokenize(chunk.content), chunk.id)

\* add()'s update of the primary map.
StoreChunk(map, chunk) ==
    [id \in DOMAIN map \cup {chunk.id} |->
        IF id = chunk.id THEN chunk ELSE map[id]]

Add(chunk) ==
    /\ indexChunks' = StoreChunk(indexChunks, chunk)
    /\ invertedIndex' = AddToIndex(invertedIndex, chunk)
    /\ lastCall' = [op |-> "add", chunk |-> chunk]
    /\ lastReturn' = "undefined"
    /\ live' = [id \in DOMAIN live \cup {chunk.id} |->
                   (IF id \in DOMAIN live THEN live[id] ELSE {})
                       \cup (IF id = chunk.id THEN {chunk.content} ELSE {})]
    /\ UNCHANGED <<workload, chunkVars, providerVars>>

\* Faulty variant: remove() returns true whether or not the id is stored.
RemoveResult_Always(map, chunkId) == TRUE

\* What remove(chunkId) returns.
RemoveResult(map, chunkId) == chunkId \in DOMAIN map

\* Faulty variant: the postings are deleted, the stored chunk is not.
DeleteChunk_Forgets(map, chunkId) == map

\* The primary map after remove(chunkId) of a stored id.
DeleteChunk(map, chunkId) == [id \in DOMAIN map \ {chunkId} |-> map[id]]

Remove(chunkId) ==
    /\ IF chunkId \notin DOMAIN indexChunks
       THEN UNCHANGED <<indexChunks, invertedIndex>>
       ELSE /\ invertedIndex' =
                   RemovePostings(invertedIndex,
                                  tokenize(indexChunks[chunkId].content), chunkId)
            /\ indexChunks' = DeleteChunk(indexChunks, chunkId)
    /\ lastCall' = [op |-> "remove", chunkId |-> chunkId]
    /\ lastReturn' = RemoveResult(indexChunks, chunkId)
    /\ live' = [id \in DOMAIN live \ {chunkId} |-> live[id]]
    /\ UNCHANGED <<workload, chunkVars, providerVars>>

Search(query, limit, filters) ==
    /\ lastCall' = [op |-> "search", query |-> query, limit |-> limit,
                    filters |-> filters]
    /\ lastReturn' = search(query, limit, filters)
    /\ UNCHANGED <<indexChunks, invertedIndex, live, workload, chunkVars,
                   providerVars>>

Count ==
    /\ lastCall' = [op |-> "count"]
    /\ lastReturn' = count
    /\ UNCHANGED <<indexChunks, invertedIndex, live, workload, chunkVars,
                   providerVars>>

Clear ==
    /\ indexChunks' = EmptyMap
    /\ invertedIndex' = EmptyMap
    /\ lastCall' = [op |-> "clear"]
    /\ lastReturn' = "undefined"
    /\ live' = EmptyMap
    /\ UNCHANGED <<workload, chunkVars, providerVars>>

(* The runs of the index.  Under the "mixed" workload a client makes any  *)
(* call in any order on NumIds chunk ids; under "bulk" it adds the chunks *)
(* of one document in the chunker's order, as indexDocument does, up to   *)
(* MaxBulk of them, and searches.                                         *)

NumIds == 2
MaxBulk == 11

IndexContents ==
    { <<"A", "B", "C", "-", "x", "y", "z">>,
      <<"a", "b", " ", "x", "y", "z">> }

BulkContents ==
    { <<"a", "b", "c">>, <<"a", "b", " ", "x", "y", "z">> }

IndexQueries ==
    { <<"A", "B", "C">>, <<"x", "y", "z", " ", "a", "b", "c">> }

IndexMetadata == {[source |-> "s", language |-> "undefined", tags |-> <<>>]}

IndexFilters ==
    { NoFilters }

IndexChunk(i, content, md) ==
    [id |-> <<"d", i>>, documentId |-> "d", content |-> content,
     startOffset |-> 0, endOffset |-> Len(content), metadata |-> md]

InitIndex ==
    /\ indexChunks = EmptyMap
    /\ invertedIndex = EmptyMap
    /\ lastCall = [op |-> "new"]
    /\ lastReturn = "undefined"
    /\ live = EmptyMap
    /\ workload \in {"mixed", "bulk"}
    /\ document = MergeDocument
    /\ chunkSize = DefaultChunkSize
    /\ overlap = DefaultOverlap
    /\ sections = <<>>
    /\ currentChunk = <<>>
    /\ startOffset = 0
    /\ chunkIndex = 0
    /\ chunks = <<>>
    /\ pc = "idle"
    /\ minSize = DefaultMinSize
    /\ merged = <<>>
    /\ NoProvider

AddCall ==
    \/ /\ workload = "mixed"
       /\ \E i \in 0..(NumIds - 1), c \in IndexContents, md \in IndexMetadata :
              Add(IndexChunk(i, c, md))
    \/ /\ workload = "bulk"
       /\ count < MaxBulk
       /\ \E c \in BulkContents, md \in IndexMetadata :
              Add(IndexChunk(count, c, md))

RemoveCall ==
    /\ workload = "mixed"
    /\ \E i \in 0..(NumIds - 1) : Remove(<<"d", i>>)

SearchCall ==
    \E q \in IndexQueries, f \in IndexFilters : Search(q, DefaultLimit, f)

NextIndex == AddCall \/ RemoveCall \/ SearchCall \/ Count \/ Clear

SpecIndex == InitIndex /\ [][NextIndex]_vars

(* The runs of search().  A client adds, re-adds and removes a handful of  *)
(* chunks with different metadata, one of them longer than two highlight   *)
(* windows, and searches with every query under every filter object.      *)

Spaces(n) == [i \in 1..n |-> " "]

\* "abc", "ABC", "abc" and "abc", the first three more than a window apart.
LongContent ==
    <<"a", "b", "c">> \o Spaces(60) \o <<"A", "B", "C">> \o Spaces(60)
        \o <<"a", "b", "c", " ", "a", "b", "c">>

MetadataA == [source |-> "s", language |-> "ts", tags |-> << <<"x", "y">> >>]
MetadataB == [source |-> "t", language |-> "undefined", tags |-> <<>>]
MetadataC == [source |-> "s", language |-> "js", tags |-> << <<"z">> >>]

SearchChunks ==
    { IndexChunk(0, <<"A", "B", "C", "-", "x", "y", "z">>, MetadataA),
      IndexChunk(0, <<"y", "y", "y">>, MetadataA),
      IndexChunk(1, <<"a", "b", "c">>, MetadataB),
      IndexChunk(2, LongContent, MetadataC) }

SearchQueries ==
    { <<"A", "B", "C", " ", "x", "y", "z">>,
      <<"x", "y", "z", " ", "x", "y", "z", " ", "a", "b", "c">>,
      <<"a", "b">>,
      <<"z", "z", "z">> }

SearchLimits == {2, DefaultLimit}

\* A filter object: each field is given or undefined.
Filter(source, language, tags) ==
    <<[source |-> source, language |-> language, tags |-> tags]>>

SearchFilterObjects ==
    { NoFilters,
      Filter("s", "ts", <<>>),
      Filter("", "undefined", <<>>),
      Filter("undefined", "undefined", << <<"y", "z">> >>),
      Filter("undefined", "undefined", << <<>> >>) }

InitSearch ==
    /\ indexChunks = EmptyMap
    /\ invertedIndex = EmptyMap
    /\ lastCall = [op |-> "new"]
    /\ lastReturn = "undefined"
    /\ live = EmptyMap
    /\ workload = "search"
    /\ document = MergeDocument
    /\ chunkSize = DefaultChunkSize
    /\ overlap = DefaultOverlap
    /\ sections = <<>>
    /\ currentChunk = <<>>
    /\ startOffset = 0
    /\ chunkIndex = 0
    /\ chunks = <<>>
    /\ pc = "idle"
    /\ minSize = DefaultMinSize
    /\ merged = <<>>
    /\ NoProvider

AddChunk == \E chunk \in SearchChunks : Add(chunk)

RemoveChunk == \E chunk \in SearchChunks : Remove(chunk.id)

\* The limit and the filter object of a search: every filter object with
\* the smallest limit, the default limit without filters and with tags.
SearchArguments ==
    {a \in SearchLimits \X SearchFilterObjects :
        \/ a[1] = Min(SearchLimits)
        \/ a[2] = NoFilters
        \/ a[2][1].tags # <<>> /\ a[2][1].tags[1] # <<>>}

SearchFiltered ==
    \E q \in SearchQueries, a \in SearchArguments : Search(q, a[1], a[2])

NextSearch == AddChunk \/ RemoveChunk \/ SearchFiltered \/ Count \/ Clear

SpecSearch == InitSearch /\ [][NextSearch]_vars

-----------------------------------------------------------------------------
(* ChunkingUtils.chunk as one call *)

\* One iteration of chunk()'s loop; st = [chunks, currentChunk,
\* startOffset, chunkIndex].
ChunkStep(st, section, doc, size, ov) ==
    LET emitted ==
            IF EmitCond(st.currentChunk, section, size)
            THEN [chunks |-> Append(st.chunks,
                                    BufferChunk(doc, st.chunkIndex,
                                                st.currentChunk, st.startOffset)),
                  currentChunk |-> OverlapText(st.currentChunk, ov),
                  startOffset |-> NextStartOffset(st.startOffset,
                                                  st.currentChunk, ov),
                  chunkIndex |-> st.chunkIndex + 1]
            ELSE st
    IN  [emitted EXCEPT !.currentChunk = @ \o section]

RECURSIVE ChunkLoop(_, _, _, _, _)
ChunkLoop(st, secs, doc, size, ov) ==
    IF secs = <<>> THEN st
    ELSE ChunkLoop(ChunkStep(st, Head(secs), doc, size, ov),
                   Tail(secs), doc, size, ov)

chunk(doc, size, ov) ==
    IF Len(doc.content) <= size THEN <<SingleChunk(doc)>>
    ELSE LET st == ChunkLoop([chunks |-> <<>>, currentChunk |-> <<>>,
                              startOffset |-> 0, chunkIndex |-> 0],
                             splitSemantically(doc.content, doc.type),
                             doc, size, ov)
         IN  IF ~IsBlank(st.currentChunk)
             THEN Append(st.chunks, BufferChunk(doc, st.chunkIndex,
                                                st.currentChunk, st.startOffset))
             ELSE st.chunks

-----------------------------------------------------------------------------
(* BaseKnowledgeProvider *)

DefaultMaxResults == 10
DefaultMinScore == [num |-> 1, den |-> 2]

\* a || b for an optional number a: undefined and 0 give b.
NumberOr(a, b) == IF a # <<>> /\ a[1] # 0 THEN a[1] ELSE b

\* a || b for an optional score a, a fraction.
ScoreOr(a, b) == IF a # <<>> /\ a[1].num # 0 THEN a[1] ELSE b

\* DocumentStore.add: the document is stored under its id, replacing an
\* earlier one.
StoreAdd(documents, doc) ==
    [id \in DOMAIN documents \cup {doc.id} |->
        IF id = doc.id THEN doc ELSE documents[id]]

\* index.add(chunk) on the index st = [indexChunks, invertedIndex, live].
IndexAdd(st, c) ==
    [indexChunks |-> StoreChunk(st.indexChunks, c),
     invertedIndex |-> AddToIndex(st.invertedIndex, c),
     live |-> [id \in DOMAIN st.live \cup {c.id} |->
                  (IF id \in DOMAIN st.live THEN st.live[id] ELSE {})
                      \cup (IF id = c.id THEN {c.content} ELSE {})]]

RECURSIVE IndexAddAll(_, _)
IndexAddAll(st, cs) ==
    IF cs = <<>> THEN st ELSE IndexAddAll(IndexAdd(st, Head(cs)), Tail(cs))

\* indexDocument(document) on st = [store, indexChunks, invertedIndex,
\* live]: the document is stored, cut into chunks, and every chunk added
\* to the index.
indexDocument(st, doc, size, ov) ==
    LET added == IndexAddAll([indexChunks |-> st.indexChunks,
                              invertedIndex |-> st.invertedIndex,
                              live |-> st.live],
                             chunk(doc, size, ov))
    IN  [store |-> StoreAdd(st.store, doc),
         indexChunks |-> added.indexChunks,
         invertedIndex |-> added.invertedIndex,
         live |-> added.live]

\* for (const doc of result.documents) await this.indexDocument(doc)
RECURSIVE IndexDocuments(_, _, _, _)
IndexDocuments(st, docs, size, ov) ==
    IF docs = <<>> THEN st
    ELSE IndexDocuments(indexDocument(st, Head(docs), size, ov),
                        Tail(docs), size, ov)

\* r.score >= threshold
ScoreAtLeast(score, threshold) ==
    score.num * threshold.den >= threshold.num * score.den

\* BaseKnowledgeProvider.search(query), without queryTimeMs.
providerSearch(query, config) ==
    LET results == search(query.query,
                          NumberOr(query.limit,
                                   NumberOr(config.maxResults, DefaultMaxResults)),
                          query.filters)
        threshold == ScoreOr(query.threshold,
                             ScoreOr(config.minScore, DefaultMinScore))
        filteredResults ==
            SelectSeq(results, LAMBDA r : ScoreAtLeast(r.score, threshold))
    IN  [chunks |-> filteredResults, totalCount |-> Len(filteredResults)]

(* The positions of initialize() and of the 'sync' tool: at "connect" and *)
(* "sync" the loop of initializeSources or syncSources is about to take   *)
(* the i-th source; `during` tells which of the two handlers runs.        *)

At(at, i, during) == [at |-> at, i |-> i, during |-> during]

NumSources == 2

SourceNames == <<"a", "b", "c">>

\* The provider between two calls: initialize() has completed, a tool has
\* completed, or a tool has completed after shutdown().
Between(during) ==
    IF during = "initialize" THEN At("initialized", 0, "none")
    ELSE IF during = "sync tool" THEN At("ready", 0, "none")
    ELSE At("stopped", 0, "none")

\* The loop goes on with the source after the i-th, or the handler ends.
AfterSource(i, pos) ==
    IF i < NumSources THEN At(pos.at, i + 1, pos.during)
    ELSE IF pos.at = "connect" THEN At("sync", 1, pos.during)
    ELSE Between(pos.during)

\* Faulty variant: the error of a source is not caught and ends the
\* handler.
OnSourceError_Aborts(i, pos) == Between(pos.during)

\* catch (error) { this.logger.error(...) }: the loop goes on.
OnSourceError(i, pos) == AfterSource(i, pos)

\* initialize() is called.
Initialize ==
    /\ providerPc.at = "new"
    /\ providerPc' = At("connect", 1, "initialize")
    /\ lastCall' = [op |-> "initialize"]
    /\ fetched' = <<>>
    /\ UNCHANGED <<store, sources, providerConfig, outcome, syncs>>
    /\ UNCHANGED <<indexChunks, invertedIndex, lastReturn, live, workload>>
    /\ UNCHANGED chunkVars

\* initializeSources' loop body: connect() sets `connected` and returns, or
\* throws and the error is logged.
Connect ==
    /\ providerPc.at = "connect"
    /\ LET i == providerPc.i
       IN  \/ /\ sources' = [sources EXCEPT ![i].connected = TRUE]
              /\ outcome' = [outcome EXCEPT ![i].connect = "connected"]
              /\ providerPc' = AfterSource(i, providerPc)
           \/ /\ outcome' = [outcome EXCEPT ![i].connect = "failed"]
              /\ providerPc' = OnSourceError(i, providerPc)
              /\ UNCHANGED sources
    /\ fetched' = <<>>
    /\ UNCHANGED <<store, providerConfig, syncs>>
    /\ UNCHANGED <<indexVars, chunkVars>>

\* The state after the documents were indexed.
Indexed(docs) ==
    IndexDocuments([store |-> store, indexChunks |-> indexChunks,
                    invertedIndex |-> invertedIndex, live |-> live],
                   docs, chunkSize, overlap)

\* The documents a source can return: one document under the source's own
\* id, whose content changes between fetches.
TwoParagraphs ==
    <<"a", "b", "c", "\n", "\n", "x", "y", "z", " ", "y", "y", "y">>

SourceContents(i) ==
    IF i = 1 THEN {TwoParagraphs, <<"a", "b", "c", " ", "x", "y", "z">>}
    ELSE {<<"x", "y", "z">>}

Fetchable(i) ==
    {<<[id |-> SourceNames[i], type |-> "text", content |-> c,
        metadata |-> [source |-> SourceNames[i], language |-> "undefined",
                      tags |-> <<>>]]>> : c \in SourceContents(i)}

\* What one fetch can do with the history of initialize().
Recorded(i, fetch, docs) ==
    IF providerPc.during = "initialize"
    THEN [outcome EXCEPT ![i].fetch = fetch, ![i].documents = docs]
    ELSE outcome

\* source.fetchDocuments(context) is called on source i.
FetchCall(i) == <<[source |-> SourceNames[i], connected |-> sources[i].connected]>>

\* syncSources' loop body: a source that is not connected is skipped;
\* fetchDocuments returns documents, which are indexed one by one, or
\* throws and the error is logged.
SyncSource ==
    /\ providerPc.at = "sync"
    /\ LET i == providerPc.i
       IN  IF ~sources[i].connected
           THEN /\ outcome' = Recorded(i, "skipped", <<>>)
                /\ providerPc' = AfterSource(i, providerPc)
                /\ UNCHANGED <<store, indexChunks, invertedIndex, live>>
                /\ fetched' = <<>>
           ELSE /\ fetched' = FetchCall(i)
                /\ \/ \E docs \in Fetchable(i) :
                         LET after == Indexed(docs)
                         IN  /\ store' = after.store
                             /\ indexChunks' = after.indexChunks
                             /\ invertedIndex' = after.invertedIndex
                             /\ live' = after.live
                             /\ outcome' = Recorded(i, "fetched", docs)
                             /\ providerPc' = AfterSource(i, providerPc)
                   \/ /\ outcome' = Recorded(i, "failed", <<>>)
                      /\ providerPc' = OnSourceError(i, providerPc)
                      /\ UNCHANGED <<store, indexChunks, invertedIndex, live>>
    /\ UNCHANGED <<sources, providerConfig, syncs>>
    /\ UNCHANGED <<lastCall, lastReturn, workload>>
    /\ UNCHANGED chunkVars

MaxSyncs == 2

\* The 'sync' tool is called before or after shutdown().
ToolAt(pos) ==
    IF pos.at = "stopped" THEN "sync tool after shutdown" ELSE "sync tool"

\* The 'sync' tool without a source: syncSources() runs, and whatever its
\* sources do the tool returns { synced: true }.
SyncAll ==
    /\ providerPc.at \in {"initialized", "ready", "stopped"}
    /\ syncs < MaxSyncs
    /\ syncs' = syncs + 1
    /\ providerPc' = At("sync", 1, ToolAt(providerPc))
    /\ lastCall' = [op |-> "sync", source |-> <<>>]
    /\ lastReturn' = [synced |-> TRUE]
    /\ fetched' = <<>>
    /\ UNCHANGED <<store, sources, providerConfig, outcome>>
    /\ UNCHANGED <<indexChunks, invertedIndex, live, workload>>
    /\ UNCHANGED chunkVars

\* The 'sync' tool with the name of a registered source: its documents
\* are fetched and indexed, or the error of fetchDocuments ends the tool.
SyncNamed ==
    /\ providerPc.at \in {"initialized", "ready", "stopped"}
    /\ syncs < MaxSyncs
    /\ syncs' = syncs + 1
    /\ \E i \in 1..NumSources :
          /\ lastCall' = [op |-> "sync", source |-> <<SourceNames[i]>>]
          /\ fetched' = FetchCall(i)
          /\ \/ \E docs \in Fetchable(i) :
                   LET after == Indexed(docs)
                   IN  /\ store' = after.store
                       /\ indexChunks' = after.indexChunks
                       /\ invertedIndex' = after.invertedIndex
                       /\ live' = after.live
                       /\ lastReturn' = [synced |-> Len(docs),
                                         source |-> SourceNames[i]]
             \/ /\ lastReturn' = "error"
                /\ UNCHANGED <<store, indexChunks, invertedIndex, live>>
    /\ providerPc' = Between(ToolAt(providerPc))
    /\ UNCHANGED <<sources, providerConfig, outcome>>
    /\ UNCHANGED workload
    /\ UNCHANGED chunkVars

\* shutdown(): each source's disconnect() clears `connected` and returns, or
\* throws and the error is logged. The tools stay registered, so that a
\* 'sync' request can still be served afterwards.
Shutdown ==
    /\ providerPc.at \in {"initialized", "ready"}
    /\ \E disconnected \in SUBSET {i \in 1..NumSources : sources[i].connected} :
          sources' = [i \in 1..NumSources |->
                         IF i \in disconnected
                         THEN [sources[i] EXCEPT !.connected = FALSE]
                         ELSE sources[i]]
    /\ providerPc' = At("stopped", 0, "none")
    /\ lastCall' = [op |-> "shutdown"]
    /\ lastReturn' = "undefined"
    /\ fetched' = <<>>
    /\ UNCHANGED <<store, providerConfig, syncs, outcome>>
    /\ UNCHANGED <<indexChunks, invertedIndex, live, workload>>
    /\ UNCHANGED chunkVars

\* The queries of the provider's clients.
Zero == [num |-> 0, den |-> 1]
Half == [num |-> 1, den |-> 2]
One == [num |-> 1, den |-> 1]

Query(q, limit, threshold) ==
    [query |-> q, limit |-> limit, threshold |-> threshold, filters |-> NoFilters]

ProviderQueries ==
    { Query(<<"a", "b", "c", " ", "x", "y", "z", " ", "y", "y", "y">>, <<>>, <<>>),
      Query(<<"a", "b", "c", " ", "x", "y", "z", " ", "y", "y", "y">>, <<>>, <<Zero>>),
      Query(<<"a", "b", "c", " ", "x", "y", "z", " ", "y", "y", "y">>, <<1>>, <<Half>>),
      Query(<<"x", "y", "z">>, <<>>, <<One>>) }

\* search(query) is called, by the 'search' tool or a search request.
ProviderSearch ==
    /\ providerPc.at \in {"initialized", "ready"}
    /\ \E query \in ProviderQueries :
          /\ lastCall' = [op |-> "provider.search", query |-> query]
          /\ lastReturn' = providerSearch(query, providerConfig)
    /\ fetched' = <<>>
    /\ UNCHANGED <<store, sources, providerConfig, providerPc, syncs, outcome>>
    /\ UNCHANGED <<indexChunks, invertedIndex, live, workload>>
    /\ UNCHANGED chunkVars

(* The runs of the provider: it is built with a configuration, its       *)
(* sources are registered, initialize() runs, and then its clients search *)
(* and call the 'sync' tool, MaxSyncs times at most.                      *)

ProviderChunkSize == 8
ProviderOverlap == 1

ProviderConfigs ==
    {[chunkSize |-> <<ProviderChunkSize>>, chunkOverlap |-> <<ProviderOverlap>>,
      maxResults |-> <<DefaultMaxResults>>, minScore |-> <<m>>] :
        m \in {Zero, One}}

InitProvider ==
    /\ fetched = <<>>
    /\ providerConfig \in ProviderConfigs
    /\ chunkSize = NumberOr(providerConfig.chunkSize, DefaultChunkSize)
    /\ overlap = NumberOr(providerConfig.chunkOverlap, DefaultOverlap)
    /\ store = EmptyMap
    /\ sources = [i \in 1..NumSources |->
                     [name |-> SourceNames[i], connected |-> FALSE]]
    /\ outcome = [i \in 1..NumSources |->
                     [connect |-> "none", fetch |-> "none", documents |-> <<>>]]
    /\ providerPc = At("new", 0, "none")
    /\ syncs = 0
    /\ indexChunks = EmptyMap
    /\ invertedIndex = EmptyMap
    /\ lastCall = [op |-> "new"]
    /\ lastReturn = "undefined"
    /\ live = EmptyMap
    /\ workload = "provider"
    /\ document = MergeDocument
    /\ sections = <<>>
    /\ currentChunk = <<>>
    /\ startOffset = 0
    /\ chunkIndex = 0
    /\ chunks = <<>>
    /\ pc = "idle"
    /\ minSize = DefaultMinSize
    /\ merged = <<>>

NextProvider ==
    \/ Initialize \/ Connect \/ SyncSource
    \/ SyncAll \/ SyncNamed \/ ProviderSearch \/ Shutdown

SpecProvider == InitProvider /\ [][NextProvider]_vars

-----------------------------------------------------------------------------
(* Properties of ChunkingUtils *)

Slack == 2

\* The characters of s that are not white space, in order.
NonWhitespace(s) == SelectSeq(s, LAMBDA c : c \notin Whitespace)

IsSubstring(t, s) ==
    \E i \in 0..(Len(s) - Len(t)) : SubSeq(s, i + 1, i + Len(t)) = t

\* The last n characters of s, for 0 <= n <= Len(s).
LastChars(s, n) == SubSeq(s, Len(s) - n + 1, Len(s))

\* The ways to cut 1..n into m consecutive non-empty runs, each given by the
\* last index of every run.
Cuts(m, n) ==
    {e \in [1..m -> 1..n] :
        /\ e[m] = n
        /\ \A k \in 1..(m - 1) : e[k] < e[k + 1]}

RunStart(e, k) == IF k = 1 THEN 1 ELSE e[k - 1] + 1

\* C1: a document whose content is no longer than chunkSize (empty
\* content included) yields exactly one chunk, '<documentId>-chunk-0',
\* with startOffset 0, endOffset content.length and the content itself,
\* not trimmed.
C1_SmallDocumentSingleChunk ==
    (pc = "done" /\ Len(document.content) <= chunkSize) =>
        /\ Len(chunks) = 1
        /\ chunks[1].id = <<document.id, 0>>
        /\ chunks[1].startOffset = 0
        /\ chunks[1].endOffset = Len(document.content)
        /\ chunks[1].content = document.content

C1_Witness ==
    /\ pc = "done"
    /\ Len(document.content) <= chunkSize
    /\ Len(document.content) >= 2
    /\ document.content[1] = " "
    /\ chunks[1].content = document.content

\* C2: the example scenario: "A" * 1500 as a 'text' document with
\* chunkSize 1000 and overlap 200 yields 2 chunks, chunk 0 spanning
\* [0,1000) and chunk 1 starting with the last 200 characters of chunk 0.
C2_ExampleTwoChunks ==
    (pc = "done" /\ document = ExampleDocument
        /\ chunkSize = DefaultChunkSize /\ overlap = DefaultOverlap) =>
        /\ Len(chunks) = 2
        /\ chunks[1].startOffset = 0
        /\ chunks[1].endOffset = DefaultChunkSize
        /\ Len(chunks[2].content) >= DefaultOverlap
        /\ SubSeq(chunks[2].content, 1, DefaultOverlap)
               = LastChars(chunks[1].content, DefaultOverlap)

\* C3: with 0 <= overlap < chunkSize every chunk's content is at most
\* chunkSize + overlap characters long, plus a fixed slack, whatever the
\* lengths of the sections.
C3_ChunkLengthBound ==
    pc = "done" =>
        \A i \in 1..Len(chunks) :
            Len(chunks[i].content) <= chunkSize + overlap + Slack

\* C4: with 0 <= overlap < chunkSize every chunk has
\* 0 <= startOffset <= endOffset <= document.content.length.
C4_OffsetsWithinDocument ==
    pc = "done" =>
        \A i \in 1..Len(chunks) :
            /\ 0 <= chunks[i].startOffset
            /\ chunks[i].startOffset <= chunks[i].endOffset
            /\ chunks[i].endOffset <= Len(document.content)

\* C5: chunk() covers the document in document order: the splitter's
\* sections lose nothing of the content but white space, the chunks are
\* numbered in order, the sections fall into consecutive non-empty runs,
\* one per chunk and in order, each run's text (trimmed) being part of
\* its chunk's content; so every character of the content that is not
\* white space is in a chunk.
C5_Coverage ==
    pc = "done" =>
        /\ \A k \in 1..Len(chunks) : chunks[k].id = <<document.id, k - 1>>
        /\ IF Len(document.content) <= chunkSize
           THEN NonWhitespace(Concat([k \in 1..Len(chunks) |-> chunks[k].content]))
                    = NonWhitespace(document.content)
           ELSE LET secs == splitSemantically(document.content, document.type)
                IN  /\ NonWhitespace(Concat(secs))
                           = NonWhitespace(document.content)
                    /\ secs = <<>> => chunks = <<>>
                    /\ secs # <<>> =>
                         /\ chunks # <<>>
                         /\ \E e \in Cuts(Len(chunks), Len(secs)) :
                                \A k \in 1..Len(chunks) :
                                    IsSubstring(
                                        Trim(Concat(SubSeq(secs, RunStart(e, k), e[k]))),
                                        chunks[k].content)

C5_Witness ==
    /\ pc = "done"
    /\ document.type = "markdown"
    /\ Len(document.content) > chunkSize
    /\ overlap > 0
    /\ Len(chunks) >= 2
    /\ chunks[2].content
          # Trim(splitSemantically(document.content, document.type)[2])

\* C6: for every overlap with 0 <= overlap < chunkSize, overlap = 0
\* included, when chunk() emits a buffer of length L the next buffer is
\* seeded with exactly the trailing min(overlap, L) characters of the
\* emitted buffer and the next startOffset is startOffset + L - overlap.
C6_OverlapSeed ==
    [][(pc = "check" /\ pc' = "append") =>
        /\ currentChunk' = LastChars(currentChunk,
                                     Min({overlap, Len(currentChunk)}))
        /\ startOffset' = startOffset + Len(currentChunk) - overlap]_vars

\* out is in with its chunks folded in consecutive runs.
FoldRun(in, a, b) ==
    [in[a] EXCEPT
        !.content = Concat([j \in 1..(2 * (b - a) + 1) |->
                              IF j % 2 = 1 THEN in[a + (j - 1) \div 2].content
                              ELSE <<"\n">>]),
        !.endOffset = in[b].endOffset]

MergePost(in, min, out) ==
    /\ in = <<>> => out = <<>>
    /\ in # <<>> =>
         /\ out # <<>>
         /\ \E e \in Cuts(Len(out), Len(in)) :
                \A k \in 1..Len(out) : out[k] = FoldRun(in, RunStart(e, k), e[k])
    /\ \A k \in 1..(Len(out) - 1) : Len(out[k].content) >= min

\* C7: mergeSmallChunks returns the input folded in consecutive runs that
\* partition it in order (contents joined by a newline, id and
\* startOffset of the run's first chunk, endOffset of its last); every
\* chunk but possibly the last is at least minSize long, the last chunk is
\* never dropped, and the input is not modified.
C7_MergeSmallChunks ==
    [][(pc = "mergeStart" /\ pc' = "merged") =>
        /\ chunks' = chunks
        /\ MergePost(chunks, minSize, merged')]_vars

C7_Witness ==
    /\ pc = "merged"
    /\ Len(merged) >= 2
    /\ Len(merged) < Len(chunks)
    /\ Len(merged[Len(merged)].content) < minSize

-----------------------------------------------------------------------------
(* Properties of SearchIndex *)

\* The maximal runs of word characters of s that are longer than 2.
WordRuns(s) ==
    {SubSeq(s, i, j) : <<i, j>> \in
        {r \in (1..Len(s)) \X (1..Len(s)) :
            /\ r[2] - r[1] + 1 > 2
            /\ \A m \in r[1]..r[2] : s[m] \in WordChars
            /\ r[1] = 1 \/ s[r[1] - 1] \notin WordChars
            /\ r[2] = Len(s) \/ s[r[2] + 1] \notin WordChars}}

\* results hold a result for the chunk id, with a score above 0.
HasResultFor(results, id) ==
    \E k \in 1..Len(results) :
        results[k].chunk.id = id /\ results[k].score.num > 0

\* The stored chunks that the query T scores.
StoredMatches(T) ==
    {id \in DOMAIN indexChunks : RawScore(id, tokenize(T)) > 0}

\* The tokens T of the contents added and neither removed nor cleared
\* since, and the ids each was added under.
AddedTokens ==
    UNION {WordRuns(content) : content \in UNION {live[id] : id \in DOMAIN live}}

AddedWith(T) ==
    {id \in DOMAIN live : \E content \in live[id] : T \in WordRuns(content)}

\* C8 as stated: after add(c) of a chunk whose content contains a token T
\* and with no remove(c.id) or clear() since, search(T) with default
\* arguments returns a result for c with score > 0, whatever other chunks
\* have been added.
C8_RoundTrip ==
    \A T \in AddedTokens :
        LET results == search(T, DefaultLimit, NoFilters)
        IN  \A id \in AddedWith(T) : HasResultFor(results, id)

\* C8, amended: the same, provided search(T) scores at most `limit` (10 by
\* default) stored chunks; of more, only the first `limit` in the posting
\* set's order are returned.
C8_RoundTripWithinLimit ==
    \A T \in AddedTokens :
        Cardinality(StoredMatches(T)) <= DefaultLimit =>
            LET results == search(T, DefaultLimit, NoFilters)
            IN  \A id \in AddedWith(T) : HasResultFor(results, id)

C8_Witness ==
    /\ lastCall.op = "search"
    /\ lastCall.filters = NoFilters
    /\ count >= 2
    /\ \E id \in DOMAIN live : \E content \in live[id] :
          /\ lastCall.query \in WordRuns(content)
          /\ ToLowerCase(content) # content
          /\ HasResultFor(lastReturn, id)

\* C9: remove(id) returns true exactly when a chunk with that id is
\* stored; a successful remove takes the id out and decreases count() by
\* exactly 1; an immediately repeated remove(id) returns false; a remove
\* that returns false leaves the primary map and every posting set as
\* they were.
C9_Remove ==
    [][lastCall'.op = "remove" =>
        /\ lastReturn' = (lastCall'.chunkId \in DOMAIN indexChunks)
        /\ lastReturn' = TRUE =>
              /\ count' = count - 1
              /\ lastCall'.chunkId \notin DOMAIN indexChunks'
        /\ lastReturn' = FALSE =>
              /\ indexChunks' = indexChunks
              /\ invertedIndex' = invertedIndex
        /\ (lastCall.op = "remove" /\ lastCall.chunkId = lastCall'.chunkId) =>
              lastReturn' = FALSE]_vars

C9_Witness ==
    /\ lastCall.op = "remove"
    /\ lastReturn = TRUE
    /\ count = 1

\* C10: count() is the number of distinct chunk ids added and not removed
\* since the last clear(); re-adding an id that is present does not change
\* it, search never changes it, and it is 0 right after clear().
C10_Count ==
    /\ [](/\ count = Cardinality(DOMAIN live)
          /\ lastCall.op = "clear" => count = 0
          /\ lastCall.op = "count" => lastReturn = Cardinality(DOMAIN live))
    /\ [][/\ lastCall'.op = "search" => count' = count
          /\ (lastCall'.op = "add" /\ lastCall'.chunk.id \in DOMAIN indexChunks)
                => count' = count]_vars

C10_Witness ==
    /\ lastCall.op = "add"
    /\ count = 1
    /\ Cardinality(live[lastCall.chunk.id]) >= 2

-----------------------------------------------------------------------------
(* Properties of search() *)

\* A chunk passes a filter object as the documentation states it: each
\* field that is given must match.
PassesGiven(c, filters) ==
    \/ filters = NoFilters
    \/ LET f == filters[1]
           md == c.metadata
       IN  /\ f.source # "undefined" => md.source = f.source
           /\ f.language # "undefined" => md.language = f.language
           /\ f.tags # <<>> =>
                 /\ md.tags # <<>>
                 /\ Range(f.tags[1]) \cap Range(md.tags[1]) # {}

\* The ids of the chunks in a result list.
ResultIds(results) == {results[k].chunk.id : k \in 1..Len(results)}

\* C11: search returns only chunks that pass every filter that is given
\* (source and language equal, at least one of the tags present), and a
\* stored chunk that the query scores and that passes them all is left
\* out only by the cut to `limit`.
C11_Filters ==
    lastCall.op = "search" =>
        LET passing == {id \in StoredMatches(lastCall.query) :
                           PassesGiven(indexChunks[id], lastCall.filters)}
        IN  /\ \A k \in 1..Len(lastReturn) :
                   PassesGiven(lastReturn[k].chunk, lastCall.filters)
            /\ \/ passing \subseteq ResultIds(lastReturn)
               \/ Len(lastReturn) = lastCall.limit

\* The positions, counted from 0, at which the token occurs in the content
\* when letter case is ignored.
Occurrences(content, token) ==
    {i \in 0..(Len(content) - Len(token)) :
        SubSeq(ToLowerCase(content), i + 1, i + Len(token)) = token}

\* The elements of a set of numbers in increasing order.
RECURSIVE Ascending(_)
Ascending(S) ==
    IF S = {} THEN <<>> ELSE <<Min(S)>> \o Ascending(S \ {Min(S)})

\* The window around the occurrence at i: WindowSize characters on each
\* side, clamped to the content, with the marker on each side that was cut.
Window(content, i, token) ==
    LET from == IF i - WindowSize > 0 THEN i - WindowSize ELSE 0
        to == IF i + Len(token) + WindowSize < Len(content)
              THEN i + Len(token) + WindowSize ELSE Len(content)
    IN  (IF from # 0 THEN Ellipsis ELSE <<>>)
            \o [j \in 1..(to - from) |-> content[from + j]]
            \o (IF to # Len(content) THEN Ellipsis ELSE <<>>)

\* The windows of every occurrence of every query token: tokens in query
\* order, the occurrences of one token from left to right.
RECURSIVE AllWindows(_, _)
AllWindows(content, queryTokens) ==
    IF queryTokens = <<>> THEN <<>>
    ELSE LET at == Ascending(Occurrences(content, Head(queryTokens)))
         IN  [n \in 1..Len(at) |-> Window(content, at[n], Head(queryTokens))]
                 \o AllWindows(content, Tail(queryTokens))

\* C12: every result carries at most 3 highlights; each is the window
\* around a case-insensitive occurrence of a query token, marked '...' in
\* front exactly when it does not start at 0 and behind exactly when it
\* does not reach the end; tokens are scanned in query order, so the
\* highlights are the first three windows of that scan.
C12_Highlights ==
    lastCall.op = "search" =>
        \A k \in 1..Len(lastReturn) :
            LET hl == lastReturn[k].highlights
                content == lastReturn[k].chunk.content
                queryTokens == tokenize(lastCall.query)
                all == AllWindows(content, queryTokens)
            IN  /\ Len(hl) <= 3
                /\ \A n \in 1..Len(hl) :
                       \E t \in Range(queryTokens) :
                           \E i \in Occurrences(content, t) :
                               hl[n] = Window(content, i, t)
                /\ hl = SubSeq(all, 1, Min({3, Len(all)}))

StartsWith(s, p) == Len(s) >= Len(p) /\ SubSeq(s, 1, Len(p)) = p
EndsWith(s, p) == Len(s) >= Len(p) /\ SubSeq(s, Len(s) - Len(p) + 1, Len(s)) = p

\* A result for a content with more than three occurrences carries three
\* highlights: one cut behind only, one cut on both sides, and one cut in
\* front only.
C12_Witness ==
    /\ lastCall.op = "search"
    /\ \E k \in 1..Len(lastReturn) :
          LET hl == lastReturn[k].highlights
              content == lastReturn[k].chunk.content
          IN  /\ Len(hl) = 3
              /\ \E t \in Range(tokenize(lastCall.query)) :
                     Cardinality(Occurrences(content, t)) > 3
              /\ ~StartsWith(hl[1], Ellipsis) /\ EndsWith(hl[1], Ellipsis)
              /\ StartsWith(hl[2], Ellipsis) /\ EndsWith(hl[2], Ellipsis)
              /\ StartsWith(hl[3], Ellipsis) /\ ~EndsWith(hl[3], Ellipsis)

\* C13: every result's score lies in (0,1] and is the chunk's raw score
\* divided by the largest raw score of the stored chunks the query
\* matches, counted before the filters; a query that matches no chunk or
\* has no token returns the empty list, and nothing is divided by zero.
C13_Scores ==
    lastCall.op = "search" =>
        LET queryTokens == tokenize(lastCall.query)
            matched == StoredMatches(lastCall.query)
        IN  /\ \A k \in 1..Len(lastReturn) :
                   LET score == lastReturn[k].score
                       best == Max({RawScore(id, queryTokens) : id \in matched})
                   IN  /\ score.den > 0
                       /\ 0 < score.num /\ score.num <= score.den
                       /\ score.num * best =
                              RawScore(lastReturn[k].chunk.id, queryTokens) * score.den
            /\ (matched = {} \/ queryTokens = <<>>) => lastReturn = <<>>

\* The place of a scored id in the iteration order of the scores map: the
\* first query token whose posting set holds it, then its place in that
\* posting set.
FirstToken(id, queryTokens) ==
    Min({t \in 1..Len(queryTokens) :
            /\ queryTokens[t] \in DOMAIN invertedIndex
            /\ id \in Range(invertedIndex[queryTokens[t]])})

PlaceIn(posting, id) == Min({p \in 1..Len(posting) : posting[p] = id})

MapOrderBefore(a, b, queryTokens) ==
    LET ta == FirstToken(a, queryTokens)
        tb == FirstToken(b, queryTokens)
    IN  \/ ta < tb
        \/ /\ ta = tb
           /\ PlaceIn(invertedIndex[queryTokens[ta]], a)
                  < PlaceIn(invertedIndex[queryTokens[ta]], b)

\* a comes before b in the fully sorted list: by higher raw score, and
\* among equals by the order of the scores map.
RankedBefore(a, b, queryTokens) ==
    \/ RawScore(a, queryTokens) > RawScore(b, queryTokens)
    \/ /\ RawScore(a, queryTokens) = RawScore(b, queryTokens)
       /\ MapOrderBefore(a, b, queryTokens)

\* The stored chunks that the last search scored and its filters let pass.
Kept ==
    {id \in StoredMatches(lastCall.query) :
        PassesFilters(indexChunks[id], lastCall.filters)}

\* C14: the results are in non-increasing score order, there are at most
\* `limit` of them, and they are the first `limit` of the fully sorted
\* list of scored chunks that pass the filters: no omitted chunk ranks
\* before a returned one, equal scores keeping the scores map's order.
C14_SortedAndCut ==
    lastCall.op = "search" =>
        LET queryTokens == tokenize(lastCall.query)
            n == Len(lastReturn)
        IN  /\ n <= lastCall.limit
            /\ n = Min({lastCall.limit, Cardinality(Kept)})
            /\ ResultIds(lastReturn) \subseteq Kept
            /\ \A i \in 1..n : \A j \in (i + 1)..n :
                   /\ ~ScoreLess(lastReturn[i].score, lastReturn[j].score)
                   /\ RankedBefore(lastReturn[i].chunk.id,
                                   lastReturn[j].chunk.id, queryTokens)
            /\ \A id \in Kept \ ResultIds(lastReturn) : \A i \in 1..n :
                   RankedBefore(lastReturn[i].chunk.id, id, queryTokens)

\* A search cut to its limit whose best result is not the first of the
\* scores map and whose last result ties with an omitted chunk.
C14_Witness ==
    /\ lastCall.op = "search"
    /\ Len(lastReturn) = lastCall.limit
    /\ Cardinality(Kept) > lastCall.limit
    /\ LET queryTokens == tokenize(lastCall.query)
       IN  /\ \E id \in Kept :
                  MapOrderBefore(id, lastReturn[1].chunk.id, queryTokens)
           /\ \E id \in Kept \ ResultIds(lastReturn) :
                  RawScore(id, queryTokens) =
                      RawScore(lastReturn[Len(lastReturn)].chunk.id, queryTokens)

-----------------------------------------------------------------------------
(* Properties of the index's postings *)

\* The chunk ids held by some posting set.
PostedIds ==
    UNION {Range(invertedIndex[t]) : t \in DOMAIN invertedIndex}

\* C15: after any sequence of add, remove and clear calls, an add of a
\* stored id with different content included, every chunk id in a posting
\* set is a key of the primary chunk map; once remove(id) has returned
\* true no posting set holds id.
C15_NoOrphanPostings ==
    /\ PostedIds \subseteq DOMAIN indexChunks
    /\ (lastCall.op = "remove" /\ lastReturn = TRUE) =>
           lastCall.chunkId \notin PostedIds

-----------------------------------------------------------------------------
(* Properties of BaseKnowledgeProvider *)

\* The chunks the index holds for a document id.
IndexedChunksOf(id) ==
    {indexChunks[cid] : cid \in {k \in DOMAIN indexChunks :
                                    indexChunks[k].documentId = id}}

\* C16: after any sequence of indexDocument calls, re-indexing an id with
\* changed or shorter content included, the index holds for each document
\* id exactly the chunks of the version indexed last, and postings only
\* for the tokens of those chunks: no chunk and no posting of an earlier
\* version remains.
C16_ReindexReplaces ==
    /\ \A id \in DOMAIN store :
           IndexedChunksOf(id) = Range(chunk(store[id], chunkSize, overlap))
    /\ \A t \in DOMAIN invertedIndex : \A cid \in Range(invertedIndex[t]) :
           /\ cid \in DOMAIN indexChunks
           /\ t \in Range(tokenize(indexChunks[cid].content))

\* The threshold a query asks for: its own when it gives one, the
\* configured minScore otherwise.
AskedThreshold(query, config) ==
    IF query.threshold # <<>> THEN query.threshold[1]
    ELSE IF config.minScore # <<>> THEN config.minScore[1]
    ELSE DefaultMinScore

\* C17: BaseKnowledgeProvider.search returns exactly the index's
\* limit-bounded results whose score is at least the threshold of the
\* query (0 included) or, when the query gives none, the configured
\* minScore (0 included), in the same order; totalCount is their number.
C17_Threshold ==
    lastCall.op = "provider.search" =>
        LET query == lastCall.query
            t == AskedThreshold(query, providerConfig)
            fromIndex ==
                search(query.query,
                       NumberOr(query.limit,
                                NumberOr(providerConfig.maxResults,
                                         DefaultMaxResults)),
                       query.filters)
            expected == SelectSeq(fromIndex,
                                  LAMBDA r : r.score.num * t.den >= t.num * r.score.den)
        IN  /\ lastReturn.chunks = expected
            /\ lastReturn.totalCount = Len(expected)

\* A document is stored and indexed: the store holds it under its id, and
\* the index holds each of its chunks with a posting for each token.
StoredAndIndexed(doc) ==
    /\ doc.id \in DOMAIN store
    /\ store[doc.id] = doc
    /\ \A c \in Range(chunk(doc, chunkSize, overlap)) :
           /\ c.id \in DOMAIN indexChunks
           /\ indexChunks[c.id] = c
           /\ \A t \in Range(tokenize(c.content)) :
                  /\ t \in DOMAIN invertedIndex
                  /\ c.id \in Range(invertedIndex[t])

\* C18: when initialize() completes, whatever connect or fetchDocuments
\* failed, every registered source was tried, every source whose connect
\* succeeded is connected and was asked for its documents, and every
\* document a successful fetch returned is stored and indexed.
C18_SkipAndContinue ==
    providerPc.at = "initialized" =>
        \A i \in 1..NumSources :
            /\ outcome[i].connect \in {"connected", "failed"}
            /\ outcome[i].connect = "connected" =>
                   /\ sources[i].connected
                   /\ outcome[i].fetch \in {"fetched", "failed"}
            /\ outcome[i].fetch = "fetched" =>
                   \A doc \in Range(outcome[i].documents) : StoredAndIndexed(doc)

\* initialize() has completed; an earlier source failed to connect, another
\* failed to fetch, and a later source's documents are in the index.
C18_Witness ==
    /\ providerPc.at = "initialized"
    /\ \E i \in 1..NumSources : \E j \in (i + 1)..NumSources :
          /\ outcome[i].connect = "failed" \/ outcome[i].fetch = "failed"
          /\ outcome[j].fetch = "fetched"
          /\ outcome[j].documents # <<>>
          /\ \A doc \in Range(outcome[j].documents) :
                 \E cid \in DOMAIN indexChunks : indexChunks[cid].documentId = doc.id

-----------------------------------------------------------------------------
(* Properties of search(): repeated query tokens *)

\* The number of distinct query tokens whose posting set holds the id.
DistinctMatches(id, queryTokens) ==
    Cardinality({t \in Range(queryTokens) :
                    /\ t \in DOMAIN invertedIndex
                    /\ id \in Range(invertedIndex[t])})

\* The tokens without their repetitions, in the order of first occurrence.
RECURSIVE Distinct(_)
Distinct(tokens) ==
    IF tokens = <<>> THEN <<>>
    ELSE LET init == Distinct(SubSeq(tokens, 1, Len(tokens) - 1))
             last == tokens[Len(tokens)]
         IN  IF last \in Range(init) THEN init ELSE Append(init, last)

\* The tokens as a query string, separated by single spaces.
RECURSIVE Join(_)
Join(tokens) ==
    IF tokens = <<>> THEN <<>>
    ELSE IF Len(tokens) = 1 THEN tokens[1]
    ELSE tokens[1] \o <<" ">> \o Join(Tail(tokens))

\* The chunk ids and scores of a result list.
Ranking(results) ==
    [k \in 1..Len(results) |-> <<results[k].chunk.id, results[k].score>>]

SameRanking(r1, r2) ==
    /\ Len(r1) = Len(r2)
    /\ \A k \in 1..Len(r1) :
           /\ r1[k][1] = r2[k][1]
           /\ r1[k][2].num * r2[k][2].den = r2[k][2].num * r1[k][2].den

\* C19: the raw score of a chunk is the number of distinct query tokens
\* whose posting set holds it, so that every score is that number over
\* the largest such number among the scored ids, and a query with a token
\* repeated gets the scores and the ranking of the query without the
\* repetition.
C19_DistinctTokens ==
    lastCall.op = "search" =>
        LET queryTokens == tokenize(lastCall.query)
            scored == Range(ScoreOrder(<<>>, queryTokens))
            best == Max({DistinctMatches(id, queryTokens) : id \in scored} \cup {1})
        IN  /\ \A k \in 1..Len(lastReturn) :
                   lastReturn[k].score.num * best =
                       DistinctMatches(lastReturn[k].chunk.id, queryTokens)
                           * lastReturn[k].score.den
            /\ SameRanking(Ranking(lastReturn),
                           Ranking(search(Join(Distinct(queryTokens)),
                                          lastCall.limit, lastCall.filters)))

-----------------------------------------------------------------------------
(* Properties of splitCode *)

\* The running brace depth after the n-th line: opening minus closing
\* braces over the lines up to it, that line included.
RECURSIVE DepthAfter(_, _)
DepthAfter(lines, n) ==
    IF n = 0 THEN 0
    ELSE DepthAfter(lines, n - 1)
             + CountChar(lines[n], "{") - CountChar(lines[n], "}")

\* The lines a..b, each followed by a newline.
JoinLines(lines, a, b) ==
    Concat([i \in 1..(b - a + 1) |-> lines[a + i - 1] \o <<"\n">>])

\* The number of lines the first k sections hold.
LinesUpTo(secs, k) == CountChar(Concat(SubSeq(secs, 1, k)), "\n")

\* Every section that another one follows, or that ends before the last
\* line, ends right after a blank line at which the depth is 0.
EndsAtTopLevel(content, secs) ==
    LET lines == SplitLines(content)
    IN  \A k \in 1..Len(secs) :
            LET n == LinesUpTo(secs, k)
            IN  /\ n \in 1..Len(lines)
                /\ (k < Len(secs) \/ n < Len(lines)) =>
                       /\ IsBlank(lines[n])
                       /\ DepthAfter(lines, n) = 0

\* The sections are run on a 'code' document by chunk().
SplitsCode ==
    /\ pc = "start"
    /\ document.type = "code"
    /\ Len(document.content) > chunkSize

\* C20 as stated: splitCode ends a section only right after a blank line
\* at which the running brace depth is exactly 0, never at a blank line
\* at another depth, and the sections concatenated reproduce every line of
\* the content in order.
C20_CodeSections ==
    [][SplitsCode =>
        /\ EndsAtTopLevel(document.content, sections')
        /\ Concat(sections') =
               JoinLines(SplitLines(document.content), 1,
                         Len(SplitLines(document.content)))]_vars

\* C20, amended: the same boundaries; the sections concatenated reproduce
\* the lines of the content in order, each followed by a newline, up to
\* the end of the last section, and the lines after it, which are dropped,
\* are all blank.
C20_CodeSectionsButBlankTail ==
    [][SplitsCode =>
        LET lines == SplitLines(document.content)
            n == CountChar(Concat(sections'), "\n")
        IN  /\ EndsAtTopLevel(document.content, sections')
            /\ n <= Len(lines)
            /\ Concat(sections') = JoinLines(lines, 1, n)
            /\ \A i \in (n + 1)..Len(lines) : IsBlank(lines[i])]_vars

\* chunk() has just split a 'code' document into two sections; a blank
\* line inside an open block did not end the second.
C20_Witness ==
    /\ pc = "check"
    /\ document.type = "code"
    /\ chunks = <<>> /\ currentChunk = <<>>
    /\ Len(sections) = 2
    /\ LET lines == SplitLines(document.content)
       IN  \E n \in (LinesUpTo(sections, 1) + 1)..(Len(lines) - 1) :
               IsBlank(lines[n]) /\ DepthAfter(lines, n) # 0

\* C21: fetchDocuments is never called on a source whose isConnected() is
\* false: in initialize(), in syncSources() and in the 'sync' tool, with or
\* without a named source, the source of every fetch was connected at the
\* call.
C21_FetchOnlyConnected ==
    fetched # <<>> => fetched[1].connected

====
